---- MODULE Spec2Model ----
(***************************************************************************)
(* A model of NTIRE_2024_ISR/src/team01_AsyNAF_1.py: the test-time local   *)
(* converter (AvgPool2d, replace_layers), UnPixelShuffle, and the RLFN     *)
(* building blocks (conv_layer, sequential, pixelshuffle_block,            *)
(* RLFN_Prune).                                                            *)
(*                                                                         *)
(* Python values are encoded uniformly: None is <<>>, an int n is <<n>>,   *)
(* a tuple (a, b) is <<a, b>>.  A tensor is one (batch item, channel)      *)
(* plane unless said otherwise: every operation of AvgPool2d.forward acts  *)
(* on the last two dimensions only.  A plane is a record                   *)
(*   [err, h, w, d, v]  with v[<<i, j>>] / d the value at row i, column j  *)
(* (0-based, as in the source), so that means are exact rationals.         *)
(***************************************************************************)
EXTENDS Integers, Sequences, FiniteSets, TLC

VARIABLES
    modules,     \* the module heap: node id -> module object
    call,        \* the arguments of the replace_layers call
    phase,       \* "built", "replaced" (returned normally) or "raised"
    orig,        \* the heap as it was before replace_layers ran
    node,        \* the AvgPool2d object (its id) forward was last called on
    x,           \* the last input given to a forward call
    out,         \* what that forward call returned
    path,        \* the branch of AvgPool2d.forward that produced it
    used         \* the AvgPool2d objects forward has been called on

vars == <<modules, call, phase, orig, node, x, out, path, used>>

----------------------------------------------------------------------------
(* Bounds of the model. *)

MaxDim == 3        \* planes have 1..MaxDim rows and columns

None == <<>>

Min(a, b) == IF a <= b THEN a ELSE b
Max(a, b) == IF a >= b THEN a ELSE b

RECURSIVE SumOver(_, _)
SumOver(f, S) ==
    IF S = {} THEN 0
    ELSE LET e == CHOOSE e \in S : TRUE IN f[e] + SumOver(f, S \ {e})

----------------------------------------------------------------------------
(* Planes. *)

Idx(h, w) == (0 .. h - 1) \X (0 .. w - 1)

Plane(h, w, d, f) == [err |-> "none", h |-> h, w |-> w, d |-> d, v |-> f]

Raised(e) == [err |-> e, h |-> 0, w |-> 0, d |-> 1, v |-> <<>>]

NoPlane == Raised("unset")

(* A background of ones with one spike at (p, q).  Pooling is linear: the  *)
(* background counts the cells of a window, the spike tells where the      *)
(* window lies.                                                            *)
SpikePlane(h, w, p, q) ==
    Plane(h, w, 1, [ij \in Idx(h, w) |-> IF ij = <<p, q>> THEN 2 ELSE 1])

Inputs ==
    UNION { { SpikePlane(h, w, pq[1], pq[2]) : pq \in Idx(h, w) } :
            h \in 1 .. MaxDim, w \in 1 .. MaxDim }

----------------------------------------------------------------------------
(* torch primitives used by AvgPool2d.forward, on one plane. *)

(* F.adaptive_avg_pool2d(x, 1): the mean of the whole plane as a 1 x 1 map *)
adaptive_avg_pool2d(t) ==
    Plane(1, 1, t.d * t.h * t.w, [ij \in Idx(1, 1) |-> SumOver(t.v, Idx(t.h, t.w))])

(* x.cumsum(dim=-1).cumsum(dim=-2): running sums along the columns, then   *)
(* along the rows                                                          *)
cumsum_last(t) ==
    [t EXCEPT !.v = [ij \in Idx(t.h, t.w) |->
        SumOver([b \in 0 .. ij[2] |-> t.v[<<ij[1], b>>]], 0 .. ij[2])]]

cumsum_rows(t) ==
    [t EXCEPT !.v = [ij \in Idx(t.h, t.w) |->
        SumOver([a \in 0 .. ij[1] |-> t.v[<<a, ij[2]>>]], 0 .. ij[1])]]

(* F.pad(s, (1, 0, 1, 0)): one column of zeros on the left, one row of     *)
(* zeros on top                                                            *)
pad_zero_top_left(t) ==
    Plane(t.h + 1, t.w + 1, t.d,
          [ij \in Idx(t.h + 1, t.w + 1) |->
              IF ij[1] = 0 \/ ij[2] = 0 THEN 0 ELSE t.v[<<ij[1] - 1, ij[2] - 1>>]])

(* x[:, :, ::r1, ::r2] *)
subsample(t, r1, r2) ==
    LET h2 == (t.h + r1 - 1) \div r1
        w2 == (t.w + r2 - 1) \div r2
    IN Plane(h2, w2, t.d, [ij \in Idx(h2, w2) |-> t.v[<<ij[1] * r1, ij[2] * r2>>]])

(* F.interpolate(out, scale_factor=(r1, r2)), mode 'nearest' *)
interpolate_nearest(t, r1, r2) ==
    Plane(t.h * r1, t.w * r2, t.d,
          [ij \in Idx(t.h * r1, t.w * r2) |-> t.v[<<ij[1] \div r1, ij[2] \div r2>>]])

Clamp(i, lo, hi) == Max(lo, Min(i, hi))

(* F.pad(out, (left, right, top, bottom), mode='replicate') *)
pad_replicate(t, left, right, top, bottom) ==
    LET h2 == t.h + top + bottom
        w2 == t.w + left + right
    IN Plane(h2, w2, t.d,
             [ij \in Idx(h2, w2) |->
                 t.v[<<Clamp(ij[1] - top, 0, t.h - 1), Clamp(ij[2] - left, 0, t.w - 1)>>]])

----------------------------------------------------------------------------
(* class AvgPool2d *)

rs == <<5, 4, 3, 2, 1>>

AvgPool2d(kernel_size, base_size, auto_pad, fast_imp, train_size) ==
    [kernel_size |-> kernel_size, base_size |-> base_size, auto_pad |-> auto_pad,
     fast_imp |-> fast_imp, max_r1 |-> rs[1], max_r2 |-> rs[1],
     train_size |-> train_size]

(* Python truthiness of base_size: None, 0 and () are false *)
Truthy(val) == val # None /\ val # <<0>>

SetKernelEveryCall(p, t) ==
    IF Truthy(p.base_size)
    THEN LET train_size == p.train_size
             base == IF Len(p.base_size) = 1
                     THEN <<p.base_size[1], p.base_size[1]>>
                     ELSE p.base_size
         IN [p EXCEPT
               !.base_size = base,
               !.kernel_size = <<(t.h * base[1]) \div train_size[Len(train_size) - 1],
                                 (t.w * base[2]) \div train_size[Len(train_size)]>>,
               !.max_r1 = Max(1, (rs[1] * t.h) \div train_size[Len(train_size) - 1]),
               !.max_r2 = Max(1, (rs[1] * t.w) \div train_size[Len(train_size)])]
    ELSE p

(* lines 59-69: the kernel is derived from the first input seen *)
SetKernel(p, t) ==
    IF p.kernel_size = None /\ Truthy(p.base_size)
    THEN LET train_size == p.train_size
             base == IF Len(p.base_size) = 1
                     THEN <<p.base_size[1], p.base_size[1]>>
                     ELSE p.base_size
         IN [p EXCEPT
               !.base_size = base,
               !.kernel_size = <<(t.h * base[1]) \div train_size[Len(train_size) - 1],
                                 (t.w * base[2]) \div train_size[Len(train_size)]>>,
               !.max_r1 = Max(1, (rs[1] * t.h) \div train_size[Len(train_size) - 1]),
               !.max_r2 = Max(1, (rs[1] * t.w) \div train_size[Len(train_size)])]
    ELSE p

CoversStrictly(p, t) == p.kernel_size[1] > t.h /\ p.kernel_size[2] > t.w

(* line 71 *)
Covers(p, t) == p.kernel_size[1] >= t.h /\ p.kernel_size[2] >= t.w

(* [r for r in self.rs if h % r == 0][0] *)
FirstDivisor(n) ==
    rs[CHOOSE i \in 1 .. Len(rs) :
           /\ n % rs[i] = 0
           /\ \A j \in 1 .. i - 1 : n % rs[j] # 0]

(* lines 75-88: the subsampled approximation *)
FastPath(p, t) ==
    LET r1 == Min(p.max_r1, FirstDivisor(t.h))
        r2 == Min(p.max_r2, FirstDivisor(t.w))
        s == cumsum_rows(cumsum_last(subsample(t, r1, r2)))
        k1 == Min(s.h - 1, p.kernel_size[1] \div r1)
        k2 == Min(s.w - 1, p.kernel_size[2] \div r2)
    IN IF p.kernel_size[1] >= t.h /\ p.kernel_size[2] >= t.w
       THEN adaptive_avg_pool2d(t)
       ELSE IF k1 = 0 \/ k2 = 0
       THEN Raised("RuntimeError")    \* s[:-0] is empty: nothing to interpolate
       ELSE interpolate_nearest(
              Plane(s.h - k1, s.w - k2, s.d * k1 * k2,
                    [ij \in Idx(s.h - k1, s.w - k2) |->
                        s.v[ij] - s.v[<<ij[1], ij[2] + k2>>]
                        - s.v[<<ij[1] + k1, ij[2]>>]
                        + s.v[<<ij[1] + k1, ij[2] + k2>>]]),
              r1, r2)

ExactPathUnpadded(p, t) ==
    LET s == cumsum_rows(cumsum_last(t))
        k1 == Min(t.h - 1, p.kernel_size[1])
        k2 == Min(t.w - 1, p.kernel_size[2])
    IN IF k1 = 0 \/ k2 = 0
       THEN Raised("RuntimeError")
       ELSE Plane(s.h - k1, s.w - k2, s.d * k1 * k2,
                  [ij \in Idx(s.h - k1, s.w - k2) |->
                      s.v[<<ij[1] + k1, ij[2] + k2>>] + s.v[ij]
                      - s.v[<<ij[1], ij[2] + k2>>]
                      - s.v[<<ij[1] + k1, ij[2]>>]])

(* lines 90-96: integral image, exact window means *)
ExactPath(p, t) ==
    LET s == pad_zero_top_left(cumsum_rows(cumsum_last(t)))
        k1 == Min(t.h, p.kernel_size[1])
        k2 == Min(t.w, p.kernel_size[2])
    IN IF k1 = 0 \/ k2 = 0
       THEN Raised("RuntimeError")    \* s[:-0] is empty, s[0:] is not
       ELSE Plane(s.h - k1, s.w - k2, s.d * k1 * k2,
                  [ij \in Idx(s.h - k1, s.w - k2) |->
                      s.v[<<ij[1] + k1, ij[2] + k2>>] + s.v[ij]
                      - s.v[<<ij[1], ij[2] + k2>>]
                      - s.v[<<ij[1] + k1, ij[2]>>]])

(* lines 98-103 *)
AutoPad(p, t, o) ==
    IF p.auto_pad /\ o.err = "none"
    THEN pad_replicate(o, (t.w - o.w) \div 2, (t.w - o.w + 1) \div 2,
                          (t.h - o.h) \div 2, (t.h - o.h + 1) \div 2)
    ELSE o

UseFast(p) == p.fast_imp

(* AvgPool2d.forward: the object after the call, the value returned and    *)
(* the branch taken                                                        *)
forward(p0, t) ==
    LET p == SetKernel(p0, t)
    IN IF p.kernel_size = None
       THEN [pool |-> p, out |-> Raised("TypeError"), path |-> "raised"]
       ELSE IF Covers(p, t)
       THEN [pool |-> p, out |-> adaptive_avg_pool2d(t), path |-> "global"]
       ELSE IF UseFast(p)
       THEN [pool |-> p, out |-> AutoPad(p, t, FastPath(p, t)), path |-> "fast"]
       ELSE [pool |-> p, out |-> AutoPad(p, t, ExactPath(p, t)), path |-> "exact"]

----------------------------------------------------------------------------
(* The module heap.  A module object is a record; modules[n].children is   *)
(* its _modules dict in insertion order: position i stands for the i-th    *)
(* attribute name and holds the id of the object registered under it.      *)

MaxNodes == 3      \* module objects of the model before the rewrite
MaxSlots == 2      \* attribute names per module

NoAttrs == AvgPool2d(None, None, FALSE, FALSE, None)

Node(kind, output_size, children, attrs) ==
    [kind |-> kind, output_size |-> output_size, children |-> children,
     attrs |-> attrs]

(* nn.Module.named_children: the (name, module) pairs of _modules in       *)
(* order, a module registered under several names yielded under the first  *)
(* one only (torch keeps a memo set of the modules already yielded).       *)
named_children(heap, model) ==
    LET ch == heap[model].children
    IN { i \in 1 .. Len(ch) : \A j \in 1 .. i - 1 : ch[j] # ch[i] }

(* line 114 *)
NewPoolNoFlag(base_size, train_size, fast_imp) ==
    AvgPool2d(None, base_size, TRUE, FALSE, train_size)

NewPool(base_size, train_size, fast_imp) ==
    AvgPool2d(None, base_size, TRUE, fast_imp, train_size)

OutputSizeAny(m) == TRUE

(* line 115 *)
OutputSizeOk(m) == m.output_size = <<1>>

(* setattr(model, n, pool): the new object is allocated at the end of the  *)
(* heap and registered under the name the old one had                      *)
SetAttr(heap, model, n, obj) ==
    LET id == Len(heap) + 1
    IN [Append(heap, obj) EXCEPT ![model].children[n] = id]

RECURSIVE replace_layers(_, _, _)
RECURSIVE ReplaceFrom(_, _, _, _, _)

(* the body of the for loop of lines 108-116, for the names in `names`     *)
(* that are at or after position n; st is [heap, status]                   *)
ReplaceFrom(st, model, names, n, args) ==
    IF st.status # "ok" \/ n > Len(st.heap[model].children) THEN st
    ELSE IF n \notin names THEN ReplaceFrom(st, model, names, n + 1, args)
    ELSE
      LET m == st.heap[model].children[n]
          inner == IF Len(st.heap[m].children) > 0
                   THEN replace_layers(st, m, args)
                   ELSE st
      IN IF inner.status # "ok" THEN inner
         ELSE IF inner.heap[m].kind = "AdaptiveAvgPool2d"
         THEN IF ~OutputSizeOk(inner.heap[m])
              THEN [inner EXCEPT !.status = "AssertionError"]
              ELSE ReplaceFrom(
                     [inner EXCEPT !.heap =
                        SetAttr(inner.heap, model, n,
                                Node("AvgPool2d", None, <<>>,
                                     NewPool(args.base_size, args.train_size,
                                             args.fast_imp)))],
                     model, names, n + 1, args)
         ELSE ReplaceFrom(inner, model, names, n + 1, args)

replace_layers(st, model, args) ==
    ReplaceFrom(st, model, named_children(st.heap, model), 1, args)

----------------------------------------------------------------------------
(* The two operations on a model: the rewrite and a forward call on one of *)
(* its AvgPool2d layers.                                                   *)

Args(base_size, train_size, fast_imp) ==
    [base_size |-> base_size, train_size |-> train_size, fast_imp |-> fast_imp]

(* RLFN_PruneLocal.__init__ passes base_size = (int(H * 1.5), int(W * 1.5)) *)
(* of train_size = (N, C, H, W); an int base_size is accepted as well.      *)
CallArgs ==
    { Args(b, <<1, 1, 2, 2>>, f) : b \in {<<3, 3>>, <<2>>}, f \in BOOLEAN }

(* replace_layers(model, base_size, train_size, fast_imp) on the root *)
ReplaceLayers ==
    /\ phase = "built"
    /\ LET st == replace_layers([heap |-> modules, status |-> "ok"], 1, call)
       IN /\ modules' = st.heap
          /\ phase' = IF st.status = "ok" THEN "replaced" ELSE "raised"
    /\ UNCHANGED <<call, orig, node, x, out, path, used>>

(* m(t) for an AvgPool2d m of the model *)
Forward(n, t) ==
    /\ modules[n].kind = "AvgPool2d"
    /\ LET r == forward(modules[n].attrs, t)
       IN /\ modules' = [modules EXCEPT ![n].attrs = r.pool]
          /\ out' = r.out
          /\ path' = r.path
    /\ node' = n
    /\ x' = t
    /\ used' = used \cup {n}
    /\ UNCHANGED <<call, phase, orig>>

----------------------------------------------------------------------------
(* SpecPool: a model with one pooling layer, either an AdaptiveAvgPool2d   *)
(* that replace_layers converts or an AvgPool2d built by hand, and forward *)
(* calls on it.                                                            *)

KernelSizes == { <<k1, k2>> : k1 \in 1 .. MaxDim, k2 \in 1 .. MaxDim }

HandBuilt ==
    { AvgPool2d(k, None, a, f, None) : k \in KernelSizes, a \in BOOLEAN, f \in BOOLEAN }

Root(children) == Node("Module", None, children, NoAttrs)

Adaptive(output_size) == Node("AdaptiveAvgPool2d", output_size, <<>>, NoAttrs)

InitPool ==
    /\ \/ /\ modules = <<Root(<<2>>), Adaptive(<<1>>)>>
          /\ call \in CallArgs
       \/ /\ \E p \in HandBuilt :
                modules = <<Root(<<2>>), Node("AvgPool2d", None, <<>>, p)>>
          /\ call = Args(<<3, 3>>, <<1, 1, 2, 2>>, FALSE)
    /\ orig = modules
    /\ phase = "built"
    /\ node = 0
    /\ x = NoPlane
    /\ out = NoPlane
    /\ path = "none"
    /\ used = {}

NextPool ==
    \/ ReplaceLayers
    \/ \E n \in 1 .. Len(modules) : \E t \in Inputs : Forward(n, t)

SpecPool == InitPool /\ [][NextPool]_vars

----------------------------------------------------------------------------
(* Properties of AvgPool2d, checked under SpecPool. *)

WindowSum(t, i, j, k1, k2) ==
    SumOver(t.v, (i .. i + k1 - 1) \X (j .. j + k2 - 1))

Installed == { n \in 1 .. Len(modules) : n > Len(orig) }

(* kernel_size[0] >= H and kernel_size[1] >= W for the last forward call *)
KernelCoversInput ==
    /\ modules[node].attrs.kernel_size[1] >= x.h
    /\ modules[node].attrs.kernel_size[2] >= x.w

(* C2: an AvgPool2d installed by replace_layers carries the base_size,     *)
(* train_size and fast_imp of the call, with kernel_size unset until its   *)
(* first forward call; a forward call whose kernel does not cover the      *)
(* input takes the fast path iff the layer's fast_imp is true and the      *)
(* exact path otherwise.                                                   *)
C2_InstalledCarriesArgs ==
    /\ \A n \in Installed :
         /\ modules[n].kind = "AvgPool2d"
         /\ modules[n].attrs.fast_imp = call.fast_imp
         /\ modules[n].attrs.train_size = call.train_size
         /\ n \notin used =>
              /\ modules[n].attrs.base_size = call.base_size
              /\ modules[n].attrs.kernel_size = None
    /\ node # 0 /\ ~KernelCoversInput =>
         /\ path = "fast" <=> modules[node].attrs.fast_imp
         /\ path = "exact" <=> ~modules[node].attrs.fast_imp

C2_Witness ==
    /\ node \in Installed
    /\ call.fast_imp
    /\ ~KernelCoversInput
    /\ path = "fast"

(* C3: with fast_imp and auto_pad false and a kernel that does not cover   *)
(* the input, the result is the (H-k1+1) x (W-k2+1) map of the means of    *)
(* all k1 x k2 windows, k1 = min(H, kernel_size[0]), k2 = min(W,           *)
(* kernel_size[1]).                                                        *)
C3_ExactWindowMeans ==
    node # 0 =>
      LET p == modules[node].attrs
          k1 == Min(x.h, p.kernel_size[1])
          k2 == Min(x.w, p.kernel_size[2])
      IN ~p.fast_imp /\ ~p.auto_pad /\ ~KernelCoversInput =>
           /\ out.err = "none"
           /\ out.h = x.h - k1 + 1
           /\ out.w = x.w - k2 + 1
           /\ \A ij \in Idx(out.h, out.w) :
                out.v[ij] * (k1 * k2) = WindowSum(x, ij[1], ij[2], k1, k2) * out.d

C3_Witness ==
    /\ node # 0
    /\ path = "exact"
    /\ ~modules[node].attrs.auto_pad
    /\ modules[node].attrs.kernel_size = <<2, 2>>
    /\ x.h = 3 /\ x.w = 3
    /\ out.h = 2 /\ out.w = 2
    /\ out.v[<<0, 0>>] # out.v[<<1, 1>>]

(* C4: when the kernel covers the whole input the result is the 1 x 1 map  *)
(* of the global mean, whatever fast_imp and auto_pad are.                 *)
C4_CoveredIsGlobalMean ==
    node # 0 /\ KernelCoversInput =>
      /\ out.err = "none"
      /\ out.h = 1 /\ out.w = 1
      /\ out.v[<<0, 0>>] * (x.h * x.w) = SumOver(x.v, Idx(x.h, x.w)) * out.d

C4_Witness ==
    /\ node # 0
    /\ KernelCoversInput
    /\ modules[node].attrs.fast_imp
    /\ modules[node].attrs.auto_pad
    /\ x.h = 2 /\ x.w = 3
    /\ out.h = 1

----------------------------------------------------------------------------
(* SpecReplace: replace_layers on every module graph of at most MaxNodes   *)
(* objects.  Object 1 is the model; the children of object i are among the *)
(* objects after it (the graph has no cycle), one object may be registered *)
(* under several names and in several parents, and every object is         *)
(* registered somewhere.                                                   *)

RECURSIVE SeqsUpTo(_, _)
SeqsUpTo(S, n) ==
    IF n = 0 THEN {<<>>}
    ELSE LET shorter == SeqsUpTo(S, n - 1)
         IN shorter \cup { Append(q, e) : q \in { r \in shorter : Len(r) = n - 1 }, e \in S }

OutputSizes == {<<1>>, <<2>>, <<1, 1>>}

NodeChoices(i, n) ==
    { Node("Module", None, ch, NoAttrs) : ch \in SeqsUpTo(i + 1 .. n, MaxSlots) }
    \cup (IF i = 1 THEN {} ELSE { Adaptive(o) : o \in OutputSizes })

RECURSIVE HeapsFrom(_, _)
HeapsFrom(i, n) ==
    IF i > n THEN {<<>>}
    ELSE { <<nd>> \o rest : nd \in NodeChoices(i, n), rest \in HeapsFrom(i + 1, n) }

Registered(heap, m) ==
    \E q \in 1 .. m - 1 : \E k \in 1 .. Len(heap[q].children) : heap[q].children[k] = m

Heaps ==
    UNION { { heap \in HeapsFrom(1, n) : \A m \in 2 .. n : Registered(heap, m) } :
            n \in 1 .. MaxNodes }

InitReplace ==
    /\ modules \in Heaps
    /\ call \in CallArgs
    /\ orig = modules
    /\ phase = "built"
    /\ node = 0
    /\ x = NoPlane
    /\ out = NoPlane
    /\ path = "none"
    /\ used = {}

NextReplace == ReplaceLayers

SpecReplace == InitReplace /\ [][NextReplace]_vars

(* the objects reachable from the model through children, the model        *)
(* excluded: its proper descendants                                        *)
RECURSIVE Below(_, _)
Below(heap, m) ==
    LET ch == { heap[m].children[k] : k \in 1 .. Len(heap[m].children) }
    IN ch \cup UNION { Below(heap, c) : c \in ch }

(* C1: after a normal return no proper descendant of the model is an       *)
(* AdaptiveAvgPool2d, and every name that held one holds an AvgPool2d.     *)
C1_NoAdaptiveLeft ==
    phase = "replaced" =>
      /\ \A m \in Below(modules, 1) : modules[m].kind # "AdaptiveAvgPool2d"
      /\ \A q \in {1} \cup Below(orig, 1) : \A k \in 1 .. Len(orig[q].children) :
           orig[orig[q].children[k]].kind = "AdaptiveAvgPool2d"
             => modules[modules[q].children[k]].kind = "AvgPool2d"

(* what the walk does achieve: when no AdaptiveAvgPool2d is registered     *)
(* under two names of one parent, none is left after a normal return       *)
ReplaceComplete_SingleNames ==
    phase = "replaced"
      /\ (\A q \in 1 .. Len(orig) : \A j, k \in 1 .. Len(orig[q].children) :
             j # k /\ orig[q].children[j] = orig[q].children[k]
               => orig[orig[q].children[j]].kind # "AdaptiveAvgPool2d")
      => \A m \in Below(modules, 1) : modules[m].kind # "AdaptiveAvgPool2d"

(* C5: the call raises AssertionError exactly when the model holds an      *)
(* AdaptiveAvgPool2d whose output_size is not 1, and no name that held     *)
(* such a node has been given another object.                              *)
C5_AssertOutputSizeOne ==
    phase # "built" =>
      /\ phase = "raised" <=>
           \E m \in Below(orig, 1) :
              orig[m].kind = "AdaptiveAvgPool2d" /\ orig[m].output_size # <<1>>
      /\ \A q \in 1 .. Len(orig) : \A k \in 1 .. Len(orig[q].children) :
           LET m == orig[q].children[k]
           IN orig[m].kind = "AdaptiveAvgPool2d" /\ orig[m].output_size # <<1>>
                => modules[q].children[k] = m /\ modules[m] = orig[m]

C5_Witness ==
    /\ phase = "raised"
    /\ Len(modules) > Len(orig)
    /\ \E k \in 1 .. Len(orig[1].children) :
         /\ orig[orig[1].children[k]].kind = "AdaptiveAvgPool2d"
         /\ orig[orig[1].children[k]].output_size = <<1, 1>>
         /\ modules[1].children[k] = orig[1].children[k]

----------------------------------------------------------------------------
(* class UnPixelShuffle, on one batch item: a tensor is [err, c, h, w, v]  *)
(* with v[<<c, i, j>>] the value of channel c at row i, column j.  The     *)
(* index tensor of line 35 is the same for every batch item.               *)

MaxChannels == 2   \* channels of an UnPixelShuffle input
MaxSide == 4       \* its height and width
MaxFactor == 2     \* downscale_factor

Idx3(c, h, w) == (0 .. c - 1) \X (0 .. h - 1) \X (0 .. w - 1)

Tensor(c, h, w, f) == [err |-> "none", c |-> c, h |-> h, w |-> w, v |-> f]

RaisedTensor(e) == [err |-> e, c |-> 0, h |-> 0, w |-> 0, v |-> <<>>]

(* len(range(i, H, r)) *)
RangeLen(i, H, r) == IF i >= H THEN 0 ELSE (H - i + r - 1) \div r

ChunkTransposed(t, i, j, r) ==
    LET h2 == RangeLen(i, t.h, r)
        w2 == RangeLen(j, t.w, r)
    IN Tensor(t.c, h2, w2,
              [q \in Idx3(t.c, h2, w2) |-> t.v[<<q[1], j + r * q[2], i + r * q[3]>>]])

(* line 27: x[..., i:H:r, j:W:r] *)
Chunk(t, i, j, r) ==
    LET h2 == RangeLen(i, t.h, r)
        w2 == RangeLen(j, t.w, r)
    IN Tensor(t.c, h2, w2,
              [q \in Idx3(t.c, h2, w2) |-> t.v[<<q[1], i + r * q[2], j + r * q[3]>>]])

(* lines 25-27: the chunks in the order they are appended *)
chunk_list(t, r) == [k \in 0 .. r * r - 1 |-> Chunk(t, k \div r, k % r, r)]

(* line 29: torch.cat(chunk_list, dim=1); the chunks must agree in height  *)
(* and width                                                               *)
cat(chunks, n) ==
    IF \E k \in 0 .. n - 1 : chunks[k].h # chunks[0].h \/ chunks[k].w # chunks[0].w
    THEN RaisedTensor("RuntimeError")
    ELSE LET c == chunks[0].c
         IN Tensor(n * c, chunks[0].h, chunks[0].w,
                   [q \in Idx3(n * c, chunks[0].h, chunks[0].w) |->
                       chunks[q[1] \div c].v[<<q[1] % c, q[2], q[3]>>]])

GatherIndexIdentity(C, r, n) == n

(* lines 31-34: the n-th entry of index, appended at i = n div r^2 and     *)
(* j = n mod r^2 as i + j*C                                                *)
GatherIndex(C, r, n) == (n \div (r * r)) + (n % (r * r)) * C

(* line 35: torch.gather(x, dim=1, index) with the index tensor of shape   *)
(* (N, C*r^2, H//r, W//r)                                                  *)
gather(t, C, H, W, r) ==
    IF t.err # "none" THEN t
    ELSE Tensor(C * r * r, H \div r, W \div r,
                [q \in Idx3(C * r * r, H \div r, W \div r) |->
                    t.v[<<GatherIndex(C, r, q[1]), q[2], q[3]>>]])

UnPixelShuffle_forward(t, r) ==
    gather(cat(chunk_list(t, r), r * r), t.c, t.h, t.w, r)

(* nn.PixelShuffle(r): (C*r^2, H, W) to (C, H*r, W*r) *)
PixelShuffle(t, r) ==
    IF t.c % (r * r) # 0 THEN RaisedTensor("RuntimeError")
    ELSE LET C == t.c \div (r * r)
         IN Tensor(C, t.h * r, t.w * r,
                   [q \in Idx3(C, t.h * r, t.w * r) |->
                       t.v[<<q[1] * r * r + (q[2] % r) * r + (q[3] % r),
                             q[2] \div r, q[3] \div r>>]])

(* Inputs whose elements are pairwise distinct, so that an element of the  *)
(* output tells which input element it is.                                 *)
Labelled(c, h, w, base, step) ==
    Tensor(c, h, w, [q \in Idx3(c, h, w) |-> base + step * ((q[1] * h + q[2]) * w + q[3])])

ShuffleInputs ==
    { Labelled(c, h, w, base, step) :
        c \in 1 .. MaxChannels, h \in 1 .. MaxSide, w \in 1 .. MaxSide,
        base \in {0, 7}, step \in {1, -1} }

InitShuffle ==
    /\ x \in ShuffleInputs
    /\ call \in { [downscale_factor |-> r] : r \in 1 .. MaxFactor }
    /\ phase = "built"
    /\ out = RaisedTensor("unset")
    /\ modules = <<>>
    /\ orig = <<>>
    /\ node = 0
    /\ path = "none"
    /\ used = {}

(* UnPixelShuffle(r)(x) *)
Unshuffle ==
    /\ phase = "built"
    /\ out' = UnPixelShuffle_forward(x, call.downscale_factor)
    /\ phase' = "unshuffled"
    /\ UNCHANGED <<modules, call, orig, node, x, path, used>>

(* nn.PixelShuffle(r) applied to the result *)
Reshuffle ==
    /\ phase = "unshuffled"
    /\ out.err = "none"
    /\ out' = PixelShuffle(out, call.downscale_factor)
    /\ phase' = "reshuffled"
    /\ UNCHANGED <<modules, call, orig, node, x, path, used>>

NextShuffle == Unshuffle \/ Reshuffle

SpecShuffle == InitShuffle /\ [][NextShuffle]_vars

(* C6: for an input of shape (C, H*r, W*r) the result has shape            *)
(* (C*r^2, H, W), its channel c*r^2 + i*r + j at (h, w) is input channel c *)
(* at (h*r + i, w*r + j), and every input element appears exactly once.    *)
C6_UnshuffleLayout ==
    LET r == call.downscale_factor
    IN phase = "unshuffled" /\ x.h % r = 0 /\ x.w % r = 0 =>
         /\ out.err = "none"
         /\ out.c = x.c * r * r /\ out.h = x.h \div r /\ out.w = x.w \div r
         /\ \A c \in 0 .. x.c - 1 : \A i \in 0 .. r - 1 : \A j \in 0 .. r - 1 :
              \A h \in 0 .. out.h - 1 : \A w \in 0 .. out.w - 1 :
                out.v[<<c * r * r + i * r + j, h, w>>] = x.v[<<c, h * r + i, w * r + j>>]
         /\ \A e \in Idx3(x.c, x.h, x.w) :
              Cardinality({ q \in Idx3(out.c, out.h, out.w) : out.v[q] = x.v[e] }) = 1

C6_Witness ==
    /\ phase = "unshuffled"
    /\ call.downscale_factor = 2
    /\ x.c = 2 /\ x.h = 4 /\ x.w = 2
    /\ out.err = "none" /\ out.c = 8

(* C7: pixel shuffle with the same factor undoes UnPixelShuffle on every   *)
(* input whose height and width are multiples of r.                        *)
C7_ShuffleInvertsUnshuffle ==
    LET r == call.downscale_factor
    IN /\ phase = "unshuffled" /\ x.h % r = 0 /\ x.w % r = 0 => out.err = "none"
       /\ phase = "reshuffled" => out = x

C7_Witness ==
    /\ phase = "reshuffled"
    /\ call.downscale_factor = 2
    /\ x.c = 2 /\ x.h = 2 /\ x.w = 4
    /\ out = x

----------------------------------------------------------------------------
(* The RLFN building blocks.  A layer is a record with a kind; a feature   *)
(* map is known by its shape [err, c, h, w] (one batch item).              *)

Shape(c, h, w) == [err |-> "none", c |-> c, h |-> h, w |-> w]

RaisedShape(e) == [err |-> e, c |-> 0, h |-> 0, w |-> 0]

(* nn.Conv2d(in, out, kernel_size, stride, padding, groups): the           *)
(* constructor rejects channel counts that groups does not divide          *)
Conv2d(in_channels, out_channels, kernel_size, stride, padding, groups) ==
    [kind |-> IF in_channels % groups = 0 /\ out_channels % groups = 0
              THEN "Conv2d" ELSE "ValueError",
     in_channels |-> in_channels, out_channels |-> out_channels,
     kernel_size |-> kernel_size, stride |-> stride, padding |-> padding,
     groups |-> groups, children |-> <<>>]

Elementwise(kind) == [kind |-> kind, children |-> <<>>]

Sequential(children) == [kind |-> "Sequential", children |-> children]

(* lines 493-496 *)
_make_pair(value) == IF Len(value) = 1 THEN <<value[1], value[1]>> ELSE value

(* int(a / 2): the quotient rounded towards zero *)
IntHalf(a) == IF a >= 0 THEN a \div 2 ELSE -((-a) \div 2)

PaddingHalfKernel(kernel_size) ==
    <<IntHalf(kernel_size[1]), IntHalf(kernel_size[2])>>

(* lines 508-509 *)
Padding(kernel_size) ==
    <<IntHalf(kernel_size[1] - 1), IntHalf(kernel_size[2] - 1)>>

(* lines 499-521 *)
conv_layer(in_channels, out_channels, kernel_size, depth_wise) ==
    LET ks == _make_pair(kernel_size)
        padding == Padding(ks)
    IN IF ~depth_wise
       THEN Conv2d(in_channels, out_channels, ks, 1, padding, 1)
       ELSE Sequential(<<Conv2d(in_channels, out_channels, ks, 1, padding, in_channels),
                         Elementwise("LeakyReLU"),
                         Conv2d(in_channels, out_channels, <<1, 1>>, 1, <<0, 0>>, 1)>>)

IsModule(obj) == obj.kind \notin {"OrderedDict", "NotModule"}

RECURSIVE CollectWhole(_, _, _)
CollectWhole(args, n, mods) ==
    IF n > Len(args) THEN mods
    ELSE CollectWhole(args, n + 1,
                      IF IsModule(args[n]) THEN Append(mods, args[n]) ELSE mods)

(* lines 569-575: the loop over args from the n-th on, modules so far mods *)
RECURSIVE Collect(_, _, _)
Collect(args, n, mods) ==
    IF n > Len(args) THEN mods
    ELSE Collect(args, n + 1,
                 IF args[n].kind = "Sequential" THEN mods \o args[n].children
                 ELSE IF IsModule(args[n]) THEN Append(mods, args[n])
                 ELSE mods)

(* lines 553-576: what sequential returns for args, or the error it raises *)
sequential(args) ==
    IF Len(args) = 1
    THEN IF args[1].kind = "OrderedDict"
         THEN [kind |-> "NotImplementedError", children |-> <<>>]
         ELSE args[1]
    ELSE Sequential(Collect(args, 1, <<>>))

(* lines 579-590 *)
pixelshuffle_block(in_channels, out_channels, upscale_factor, kernel_size) ==
    sequential(<<conv_layer(in_channels, out_channels * upscale_factor * upscale_factor,
                            kernel_size, FALSE),
                 [kind |-> "PixelShuffle", upscale_factor |-> upscale_factor,
                  children |-> <<>>]>>)

(* the shape a convolution returns *)
ConvShape(m, s) ==
    IF s.err # "none" THEN s
    ELSE IF s.c # m.in_channels
            \/ s.h + 2 * m.padding[1] < m.kernel_size[1]
            \/ s.w + 2 * m.padding[2] < m.kernel_size[2]
    THEN RaisedShape("RuntimeError")
    ELSE Shape(m.out_channels,
               (s.h + 2 * m.padding[1] - m.kernel_size[1]) \div m.stride + 1,
               (s.w + 2 * m.padding[2] - m.kernel_size[2]) \div m.stride + 1)

(* the shape nn.PixelShuffle(r) returns *)
PixelShuffleShape(r, s) ==
    IF s.err # "none" THEN s
    ELSE IF s.c % (r * r) # 0 THEN RaisedShape("RuntimeError")
    ELSE Shape(s.c \div (r * r), s.h * r, s.w * r)

RECURSIVE Apply(_, _)
RECURSIVE ApplyAll(_, _, _)

(* module(s): the shape a layer built above returns on a map of shape s *)
Apply(m, s) ==
    IF s.err # "none" THEN s
    ELSE CASE m.kind = "Conv2d" -> ConvShape(m, s)
           [] m.kind = "PixelShuffle" -> PixelShuffleShape(m.upscale_factor, s)
           [] m.kind = "Sequential" -> ApplyAll(m.children, 1, s)
           [] m.kind = "ValueError" -> RaisedShape("ValueError")
           [] OTHER -> s

ApplyAll(ms, n, s) ==
    IF n > Len(ms) THEN s ELSE ApplyAll(ms, n + 1, Apply(ms[n], s))

(* F.max_pool2d(s, kernel_size=k, stride=st) *)
MaxPoolShape(k, st, s) ==
    IF s.err # "none" THEN s
    ELSE IF s.h < k \/ s.w < k THEN RaisedShape("RuntimeError")
    ELSE Shape(s.c, (s.h - k) \div st + 1, (s.w - k) \div st + 1)

(* F.interpolate(s, (h, w)) *)
InterpolateTo(s, h, w) == IF s.err # "none" THEN s ELSE Shape(s.c, h, w)

(* F.interpolate(s, scale_factor=f) *)
InterpolateBy(s, f) == IF s.err # "none" THEN s ELSE Shape(s.c, s.h * f, s.w * f)

BroadcastDim(a, b) == IF a = b THEN a ELSE IF a = 1 THEN b ELSE IF b = 1 THEN a ELSE 0

(* a + b and a * b: the shapes are broadcast against each other *)
Broadcast(a, b) ==
    IF a.err # "none" THEN a
    ELSE IF b.err # "none" THEN b
    ELSE IF BroadcastDim(a.c, b.c) = 0 \/ BroadcastDim(a.h, b.h) = 0
            \/ BroadcastDim(a.w, b.w) = 0
    THEN RaisedShape("RuntimeError")
    ELSE Shape(BroadcastDim(a.c, b.c), BroadcastDim(a.h, b.h), BroadcastDim(a.w, b.w))

(* lines 601-622: ESA(esa_channels, n_feats, nn.Conv2d) applied to s *)
ESA_forward(f, n_feats, s) ==
    LET c1_ == Apply(Conv2d(n_feats, f, <<1, 1>>, 1, <<0, 0>>, 1), s)
        c1 == Apply(Conv2d(f, f, <<3, 3>>, 2, <<0, 0>>, 1), c1_)
        v_max == MaxPoolShape(7, 3, c1)
        c3 == InterpolateTo(Apply(Conv2d(f, f, <<3, 3>>, 1, <<1, 1>>, 1), v_max), s.h, s.w)
        cf == Apply(Conv2d(f, f, <<1, 1>>, 1, <<0, 0>>, 1), c1_)
        c4 == Apply(Conv2d(f, n_feats, <<1, 1>>, 1, <<0, 0>>, 1), Broadcast(c3, cf))
    IN Broadcast(s, c4)

esa_channels == 16

(* lines 630-664: RLFB(in_channels, mid_channels) applied to s; its        *)
(* out_channels default to in_channels                                     *)
RLFB_forward(in_channels, mid_channels, s) ==
    LET o1 == Apply(conv_layer(in_channels, mid_channels, <<3>>, FALSE), s)
        o2 == Apply(conv_layer(mid_channels, mid_channels, <<3>>, TRUE), o1)
        o3 == Apply(conv_layer(mid_channels, in_channels, <<3>>, FALSE), o2)
        o4 == Broadcast(o3, s)
    IN ESA_forward(esa_channels, in_channels,
                   Apply(conv_layer(in_channels, in_channels, <<1>>, FALSE), o4))

feature_channels == 46
mid_channels == 48

(* line 708: the scale factor of the bilinear skip connection *)
SkipScale(m) == 4

(* lines 673-709: RLFN_Prune(in_channels, out_channels, upscale=upscale)   *)
(* applied to s                                                            *)
RLFN_Prune_forward(m, s) ==
    LET out_feature == Apply(conv_layer(m.in_channels, feature_channels, <<3>>, FALSE), s)
        out_b1 == RLFB_forward(feature_channels, mid_channels, out_feature)
        out_b2 == RLFB_forward(feature_channels, mid_channels, out_b1)
        out_b3 == RLFB_forward(feature_channels, mid_channels, out_b2)
        out_b4 == RLFB_forward(feature_channels, mid_channels, out_b3)
        out_low_resolution ==
            Broadcast(Apply(conv_layer(feature_channels, feature_channels, <<3>>, FALSE),
                            out_b4),
                      out_feature)
        output == Apply(pixelshuffle_block(feature_channels, m.out_channels, m.upscale, <<3>>),
                        out_low_resolution)
    IN Broadcast(output, InterpolateBy(s, SkipScale(m)))

----------------------------------------------------------------------------
(* SpecRLFN: RLFN_Prune built with every upscale factor and applied to     *)
(* inputs around the smallest size the attention blocks accept.            *)

MaxUpscale == 4    \* upscale factors 1..MaxUpscale
MinInput == 15     \* smallest height and width ESA accepts (7-wide max pool
                   \* after a stride-2 convolution without padding)
MaxExtra == 2      \* input sides run from MinInput - 1 to MinInput + MaxExtra

InitRLFN ==
    /\ call \in { [in_channels |-> i, out_channels |-> o, upscale |-> u] :
                    i \in {1, 3}, o \in {1, 3}, u \in 1 .. MaxUpscale }
    /\ x = RaisedShape("unset")
    /\ out = RaisedShape("unset")
    /\ phase = "built"
    /\ modules = <<>>
    /\ orig = <<>>
    /\ node = 0
    /\ path = "none"
    /\ used = {}

(* model(t) for an input of shape (1, c, h, w) *)
RLFN_Forward(c, h, w) ==
    /\ phase = "built"
    /\ x' = Shape(c, h, w)
    /\ out' = RLFN_Prune_forward(call, Shape(c, h, w))
    /\ phase' = "forwarded"
    /\ UNCHANGED <<modules, call, orig, node, path, used>>

NextRLFN ==
    \E c \in {1, 3} : \E h \in MinInput - 1 .. MinInput + MaxExtra :
        \E w \in MinInput - 1 .. MinInput + MaxExtra : RLFN_Forward(c, h, w)

SpecRLFN == InitRLFN /\ [][NextRLFN]_vars

(* C8: on an input of in_channels channels that is large enough for the    *)
(* attention blocks, forward returns out_channels channels of upscale      *)
(* times the input's height and width, for every upscale.                  *)
C8_UpscaleShape ==
    phase = "forwarded" /\ x.c = call.in_channels /\ x.h >= MinInput /\ x.w >= MinInput =>
      /\ out.err = "none"
      /\ out.c = call.out_channels
      /\ out.h = x.h * call.upscale
      /\ out.w = x.w * call.upscale

(* what the code does keep: with upscale = 4 and as many output as input   *)
(* channels the result is four times the input's size                      *)
RLFN_Times4Shape ==
    phase = "forwarded" /\ x.c = call.in_channels /\ x.h >= MinInput /\ x.w >= MinInput
      /\ call.upscale = 4 /\ call.in_channels = call.out_channels =>
        out = Shape(call.out_channels, 4 * x.h, 4 * x.w)

----------------------------------------------------------------------------
(* SpecSequential: sequential called with every list of at most MaxArgs    *)
(* arguments drawn from plain modules, Sequential containers, an           *)
(* OrderedDict and a value that is no module.                              *)

MaxArgs == 3

Leaf(id) == [kind |-> "Module", id |-> id, children |-> <<>>]

ArgChoices ==
    { Leaf(1), Leaf(2),
      Sequential(<<>>), Sequential(<<Leaf(3)>>), Sequential(<<Leaf(3), Leaf(4)>>),
      [kind |-> "OrderedDict", children |-> <<>>],
      [kind |-> "NotModule", children |-> <<>>] }

InitSequential ==
    /\ call \in SeqsUpTo(ArgChoices, MaxArgs) \ {<<>>}
    /\ out = [kind |-> "unset", children |-> <<>>]
    /\ phase = "built"
    /\ x = NoPlane
    /\ modules = <<>>
    /\ orig = <<>>
    /\ node = 0
    /\ path = "none"
    /\ used = {}

CallSequential ==
    /\ phase = "built"
    /\ out' = sequential(call)
    /\ phase' = "returned"
    /\ UNCHANGED <<modules, call, orig, node, x, path, used>>

NextSequential == CallSequential

SpecSequential == InitSequential /\ [][NextSequential]_vars

(* the module arguments in argument order, the children of a Sequential    *)
(* argument in its place                                                   *)
RECURSIVE Spliced(_)
Spliced(args) ==
    IF args = <<>> THEN <<>>
    ELSE (IF Head(args).kind = "Sequential" THEN Head(args).children
          ELSE IF IsModule(Head(args)) THEN <<Head(args)>>
          ELSE <<>>) \o Spliced(Tail(args))

----------------------------------------------------------------------------
(* SpecConv: conv_layer built for every kernel size up to MaxKernel, plain *)
(* and depth-wise, and applied to a feature map.                           *)

MaxKernel == 5     \* kernel sizes 1..MaxKernel
MaxConvSide == 3   \* input height and width 1..MaxConvSide

ConvKernels ==
    { <<k>> : k \in 1 .. MaxKernel }
    \cup { <<k0, k1>> : k0 \in 1 .. MaxKernel, k1 \in 1 .. MaxKernel }

InitConv ==
    /\ call \in { [in_channels |-> i, out_channels |-> o, kernel_size |-> k,
                   depth_wise |-> d] :
                    i \in {2}, o \in {2, 4, 3}, k \in ConvKernels, d \in BOOLEAN }
    /\ modules = <<>>
    /\ out = RaisedShape("unset")
    /\ x = RaisedShape("unset")
    /\ phase = "start"
    /\ orig = <<>>
    /\ node = 0
    /\ path = "none"
    /\ used = {}

(* layer = conv_layer(in_channels, out_channels, kernel_size,              *)
(*                    depth_wise=depth_wise)                               *)
BuildConv ==
    /\ phase = "start"
    /\ modules' = <<conv_layer(call.in_channels, call.out_channels, call.kernel_size,
                               call.depth_wise)>>
    /\ phase' = "built"
    /\ UNCHANGED <<call, orig, node, x, out, path, used>>

(* layer(t) for t of shape (1, in_channels, h, w) *)
ApplyConv(h, w) ==
    /\ phase = "built"
    /\ x' = Shape(call.in_channels, h, w)
    /\ out' = Apply(modules[1], Shape(call.in_channels, h, w))
    /\ phase' = "forwarded"
    /\ UNCHANGED <<modules, call, orig, node, path, used>>

NextConv ==
    \/ BuildConv
    \/ \E h \in 1 .. MaxConvSide : \E w \in 1 .. MaxConvSide : ApplyConv(h, w)

SpecConv == InitConv /\ [][NextConv]_vars

(* the convolution that carries the kernel: the layer itself, or the first *)
(* layer of the depth-wise variant                                         *)
KernelConv == IF call.depth_wise THEN modules[1].children[1] ELSE modules[1]

(* C10: the padding is floor((k0-1)/2), floor((k1-1)/2) in both variants,  *)
(* and with an odd kernel the output has the input's height and width.     *)
C10_SamePadding ==
    LET ks == IF Len(call.kernel_size) = 1
              THEN <<call.kernel_size[1], call.kernel_size[1]>>
              ELSE call.kernel_size
        odd == ks[1] % 2 = 1 /\ ks[2] % 2 = 1
    IN /\ phase # "start" =>
            /\ KernelConv.kernel_size = ks
            /\ KernelConv.padding = <<(ks[1] - 1) \div 2, (ks[2] - 1) \div 2>>
       /\ phase = "forwarded" /\ odd =>
            /\ out.err = "none" => out.h = x.h /\ out.w = x.w
            /\ call.in_channels = call.out_channels \/ ~call.depth_wise =>
                 out = Shape(call.out_channels, x.h, x.w)

C10_Witness ==
    /\ phase = "forwarded"
    /\ call.depth_wise
    /\ call.kernel_size = <<5, 3>>
    /\ x.h = 2 /\ x.w = 3
    /\ out = Shape(call.out_channels, 2, 3)

----------------------------------------------------------------------------
(* SpecConvert: Local_Base.convert on a model whose forward is its one     *)
(* pooling layer, then forward calls on inputs of every size.  The layer   *)
(* is an AdaptiveAvgPool2d that the rewrite converts, or an AvgPool2d      *)
(* built with base_size and no kernel_size; replace_layers and forward may *)
(* also be called without convert.                                         *)

(* base_size = (int(H * 1.5), int(W * 1.5)) for a square and an oblong     *)
(* train_size, and an int base_size                                        *)
ConvertArgs ==
    CallArgs \cup { Args(<<3, 4>>, <<1, 1, 2, 3>>, TRUE) }

BuiltWithBase ==
    { AvgPool2d(None, c.base_size, FALSE, c.fast_imp, c.train_size) :
        c \in { Args(<<3, 4>>, <<1, 1, 2, 3>>, FALSE), Args(<<2>>, <<1, 1, 2, 2>>, FALSE) } }

InitConvert ==
    /\ \/ /\ modules = <<Root(<<2>>), Adaptive(<<1>>)>>
          /\ call \in ConvertArgs
       \/ \E p \in BuiltWithBase :
             /\ modules = <<Root(<<2>>), Node("AvgPool2d", None, <<>>, p)>>
             /\ call = Args(p.base_size, p.train_size, p.fast_imp)
    /\ orig = modules
    /\ phase = "built"
    /\ node = 0
    /\ x = NoPlane
    /\ out = NoPlane
    /\ path = "none"
    /\ used = {}

(* torch.rand(train_size): a plane of train_size's height and width *)
CalibrationImages(train_size) ==
    { t \in Inputs : t.h = train_size[Len(train_size) - 1]
                     /\ t.w = train_size[Len(train_size)] }

(* lines 129-133: replace_layers, then self.forward(imgs); the model's     *)
(* forward hands imgs to the layer registered under its first name         *)
Convert(t) ==
    /\ phase = "built"
    /\ t \in CalibrationImages(call.train_size)
    /\ LET st == replace_layers([heap |-> modules, status |-> "ok"], 1, call)
           n == st.heap[1].children[1]
       IN IF st.status # "ok"
          THEN /\ modules' = st.heap
               /\ phase' = "raised"
               /\ UNCHANGED <<node, x, out, path, used>>
          ELSE IF st.heap[n].kind # "AvgPool2d"
          THEN /\ modules' = st.heap
               /\ phase' = "converted"
               /\ UNCHANGED <<node, x, out, path, used>>
          ELSE LET r == forward(st.heap[n].attrs, t)
               IN /\ modules' = [st.heap EXCEPT ![n].attrs = r.pool]
                  /\ out' = r.out
                  /\ path' = r.path
                  /\ node' = n
                  /\ x' = t
                  /\ used' = used \cup {n}
                  /\ phase' = "converted"
    /\ UNCHANGED <<call, orig>>

NextConvert ==
    \/ \E t \in Inputs : Convert(t)
    \/ ReplaceLayers
    \/ \E n \in 1 .. Len(modules) : \E t \in Inputs : Forward(n, t)

SpecConvert == InitConvert /\ [][NextConvert]_vars

(* k = floor(num / den) *)
IsFloor(k, num, den) == k * den <= num /\ num < (k + 1) * den

PairOf(val) == IF Len(val) = 1 THEN <<val[1], val[1]>> ELSE val

(* C11: the first forward call of an AvgPool2d built with base_size and no *)
(* kernel_size sets kernel_size[d] = floor(input_dim[d] * base_size[d] /   *)
(* train_size_dim[d]); no later forward call changes kernel_size, max_r1   *)
(* or max_r2; and convert leaves every layer that had seen no input with  *)
(* the kernel of a train_size input, its first call made.                  *)
C11_KernelFixedByFirstCall ==
    [][ /\ \A n \in 1 .. Len(modules) :
             /\ modules[n].kind = "AvgPool2d"
             /\ n \notin used /\ n \in used'
             /\ modules[n].attrs.kernel_size = None
             /\ modules[n].attrs.base_size # None
             => LET a == modules[n].attrs
                    B == PairOf(a.base_size)
                    k == modules'[n].attrs.kernel_size
                IN /\ Len(k) = 2
                   /\ IsFloor(k[1], x'.h * B[1], a.train_size[3])
                   /\ IsFloor(k[2], x'.w * B[2], a.train_size[4])
        /\ \A n \in used :
             /\ modules'[n].attrs.kernel_size = modules[n].attrs.kernel_size
             /\ modules'[n].attrs.max_r1 = modules[n].attrs.max_r1
             /\ modules'[n].attrs.max_r2 = modules[n].attrs.max_r2
        /\ phase = "built" /\ phase' = "converted"
             => \A n \in 1 .. Len(modules') :
                  /\ modules'[n].kind = "AvgPool2d"
                  /\ modules'[n].attrs.base_size # None
                  /\ n \notin used
                  => LET B == PairOf(call.base_size)
                         k == modules'[n].attrs.kernel_size
                     IN /\ n \in used'
                        /\ Len(k) = 2
                        /\ IsFloor(k[1], call.train_size[3] * B[1], call.train_size[3])
                        /\ IsFloor(k[2], call.train_size[4] * B[2], call.train_size[4])
      ]_vars

(* a converted layer, calibrated to kernel (3, 4) on the 2 x 3 image, has  *)
(* since seen a 3 x 1 input and kept that kernel                           *)
C11_Witness ==
    /\ phase = "converted"
    /\ node \in Installed
    /\ x.h = 3 /\ x.w = 1
    /\ modules[node].attrs.kernel_size = <<3, 4>>
    /\ modules[node].attrs.max_r1 = 5

====
